---- MODULE Spec2Model ----
(***************************************************************************)
(* Keyframe extraction: the adaptive threshold search of                   *)
(* src/src/scene_detector.py, the quality gate and the deduplicator of     *)
(* src/src/quality_control.py, and the orchestration of                    *)
(* src/src/pipeline.py.                                                    *)
(*                                                                         *)
(* Thresholds are floats in the source.  The search bisects [15, 50]       *)
(* MaxIterations times, so every threshold it computes is a multiple of    *)
(* 1/2^MaxIterations; the model holds thresholds as integers in units of   *)
(* 1/ThresholdScale, which makes (low + high) / 2 exact.                   *)
(***************************************************************************)
EXTENDS Integers, Sequences, FiniteSets, TLC

----------------------------------------------------------------------------
(* Bounds of the model *)

\* largest scene count the external detector returns for a probe
MaxCount == 3
\* largest target_scenes the detector is constructed with
MaxTarget == 3
\* largest tolerance the detector is constructed with
MaxTolerance == 1
\* monotone detector family: largest count at threshold 50, steepest slope,
\* largest extra jump
MaxBase == 13
MaxSlope == 2
MaxJump == 3
\* longest input of deduplicate_frames
MaxFrames == 3
\* fingerprints of the inputs: longest changed head
MaxHead == 2
\* how far around a threshold the scores of the input frames go
MaxDelta == 1

----------------------------------------------------------------------------
(* Program constants *)

\* for iteration in range(7)
MaxIterations == 7
\* low = 15.0 ; high = 50.0
LowInit == 15
HighInit == 50
\* float('inf'), held as a value no diff takes
Inf == -1
\* target and tolerance of the end-to-end search example
ExampleTarget == 10
ExampleTolerance == 2
\* QualityControl.__init__ defaults
BlurThresholdDefault == 100
FadeBlackThreshold == 25
FadeWhiteThreshold == 230
FadeStdThreshold == 15
DedupHashDistance == 5
\* blur_threshold of run.py
BlurThresholdRun == 5
\* intensities are held in units of 1/IntensityScale, which makes
\* fade_std_threshold / 2 exact
IntensityScale == 2
MaxIntensity == 255
\* characters of str(imagehash.phash(image, hash_size=8))
HashLen == 16
\* KeyframeExtractionPipeline.__init__ defaults
SceneThresholdDefault == 27
TargetScenesDefault == 40
\* AdaptiveSceneDetector.__init__ default
ToleranceDefault == 5

ThresholdScale == 2 ^ MaxIterations
\* one step of the grid of thresholds MaxIterations bisections can tell apart
GridStep == HighInit - LowInit
GridMax == ThresholdScale

Abs(x) == IF x < 0 THEN -x ELSE x

VARIABLES
  target_scenes,    \* AdaptiveSceneDetector.target_scenes
  tolerance,        \* AdaptiveSceneDetector.tolerance
  low, high,        \* search bounds, scaled
  best_result,      \* (scenes, threshold) of the best probe so far
  best_diff,
  iterations_data,  \* the iteration trace
  iteration,        \* position of the iterator of range(7): passes begun
  sd_pc,            \* position in detect_scenes: "loop", "exit", "returned", "idle"
  scenes,           \* scenes detect_scenes returned
  metadata,         \* metadata detect_scenes returned
  detector,         \* behaviour of the external detector (monotone family)
  invocations,      \* number of external detector invocations so far
  pv_pc,            \* position in process_video
  qc,               \* the QualityControl object (its thresholds)
  q_frame,          \* frame handed to evaluate_frame
  q_id,             \* frame_id handed to evaluate_frame
  q_pc,             \* position in evaluate_frame: "call", "returned", "idle"
  q_metrics,        \* QualityMetrics evaluate_frame returned
  dd_frames,        \* frames handed to deduplicate_frames
  dd_ids,           \* frame_ids handed to deduplicate_frames
  hashes,           \* deduplicate_frames: hashes
  kept_indices,     \* deduplicate_frames: kept_indices
  duplicates,       \* deduplicate_frames: duplicates
  dd_i,             \* deduplicate_frames: i of the outer loop
  dd_pc,            \* position in deduplicate_frames
  dd_run,           \* 1: first run; 2: run over the frames the first run kept
  dd_first,         \* what the first run was given and returned
  adaptive_detection,     \* KeyframeExtractionPipeline: which detector it holds
  reads,                  \* what the frame source answers for each scene
  scene_metadata,         \* process_video: what it reads of the detector's metadata
  frames, frame_scenes,   \* process_video: the extracted frames and their scenes
  quality_passed_frames, quality_passed_scenes, quality_metrics_list,
  blur_rejected, transition_rejected,
  final_frames, final_scenes, dedup_removed, duplicate_info,
  saved_paths,            \* process_video: paths of the keyframes saved
  files,                  \* the files written under output_dir
  stats,                  \* the ProcessingStats built
  report,                 \* the report written
  result,                 \* what process_video returned, or that it raised
  video_path,             \* run.py: the path argument: "absent", "missing", "exists"
  main_pc,                \* position in main: "start", "process", "exited", "idle"
  exit_status             \* completion status of the program once main_pc = "exited"

searchVars == <<target_scenes, tolerance, low, high, best_result, best_diff,
                iterations_data, iteration, sd_pc, scenes, metadata, detector,
                invocations>>

qualityVars == <<q_frame, q_id, q_pc, q_metrics>>

dedupVars == <<dd_frames, dd_ids, hashes, kept_indices, duplicates, dd_i, dd_pc,
               dd_run, dd_first>>

pipeData == <<adaptive_detection, reads, scene_metadata, frames, frame_scenes,
              quality_passed_frames, quality_passed_scenes, quality_metrics_list,
              blur_rejected, transition_rejected, final_frames, final_scenes,
              dedup_removed, duplicate_info, saved_paths, files, stats, report, result>>

pipeVars == <<pv_pc, pipeData>>

mainVars == <<video_path, main_pc, exit_status>>

vars == <<searchVars, qc, qualityVars, dedupVars, pipeVars, mainVars>>

----------------------------------------------------------------------------
(* scene_detector.py *)

\* the scene list the detector returns when it finds c scenes
\* (scene_id = idx of enumerate)
SceneList(c) == [i \in 1..c |-> [scene_id |-> i - 1]]

NoResult == [scenes |-> <<>>, threshold |-> 0]
NoMetadata == [total_scenes |-> 0, target_scenes |-> 0, final_threshold |-> 0,
               iterations |-> <<>>]
NoDetector == [base |-> 0, slope |-> 0, cut |-> 0, jump |-> 0]

\* threshold = (low + high) / 2
MidFloor(lo, hi) == ((lo + hi) \div (2 * ThresholdScale)) * ThresholdScale
Mid(lo, hi) == (lo + hi) \div 2

\* diff = abs(scene_count - self.target_scenes)
DiffOfMissingAbs(c, T) == c - T
DiffOf(c, T) == Abs(c - T)

\* if diff < best_diff
ImprovesAlways(diff, bd) == TRUE
Improves(diff, bd) == bd = Inf \/ diff < bd

\* if diff <= self.tolerance: break
ConvergedStrict(diff, tol) == diff < tol
Converged(diff, tol) == diff <= tol

\* if scene_count < self.target_scenes: high = threshold  else: low = threshold
NarrowHighSwapped(c, T) == c > T
NarrowHigh(c, T) == c < T

\* the locals of detect_scenes before the loop
SearchStart == [low |-> LowInit * ThresholdScale,
                high |-> HighInit * ThresholdScale,
                best_result |-> NoResult,
                best_diff |-> Inf,
                iterations_data |-> <<>>,
                iteration |-> 0,
                stop |-> FALSE]

\* one pass of the loop body, the detector having returned c scenes
ProbeStep(s, c, T, tol) ==
  LET threshold == Mid(s.low, s.high)
      diff == DiffOf(c, T)
      better == Improves(diff, s.best_diff)
      conv == Converged(diff, tol)
  IN [low |-> IF ~conv /\ ~NarrowHigh(c, T) THEN threshold ELSE s.low,
      high |-> IF ~conv /\ NarrowHigh(c, T) THEN threshold ELSE s.high,
      best_result |-> IF better THEN [scenes |-> SceneList(c), threshold |-> threshold]
                                ELSE s.best_result,
      best_diff |-> IF better THEN diff ELSE s.best_diff,
      iterations_data |-> Append(s.iterations_data,
                                 [iteration |-> s.iteration, threshold |-> threshold,
                                  scenes |-> c, diff |-> diff]),
      iteration |-> s.iteration + 1,
      stop |-> conv \/ s.iteration + 1 = MaxIterations]

\* the metadata dict built after the loop
SearchMetadata(s, T) ==
  [total_scenes |-> Len(s.best_result.scenes),
   target_scenes |-> T,
   final_threshold |-> s.best_result.threshold,
   iterations |-> s.iterations_data]

Locals == [low |-> low, high |-> high, best_result |-> best_result,
           best_diff |-> best_diff, iterations_data |-> iterations_data,
           iteration |-> iteration, stop |-> sd_pc # "loop"]

\* one iteration of the loop with a detector that returns c scenes
Probe(c) ==
  /\ sd_pc = "loop"
  /\ LET s == ProbeStep(Locals, c, target_scenes, tolerance)
     IN /\ low' = s.low
        /\ high' = s.high
        /\ best_result' = s.best_result
        /\ best_diff' = s.best_diff
        /\ iterations_data' = s.iterations_data
        /\ iteration' = s.iteration
        /\ sd_pc' = IF s.stop THEN "exit" ELSE "loop"
  /\ invocations' = invocations + 1
  /\ UNCHANGED <<target_scenes, tolerance, scenes, metadata, detector>>
  /\ UNCHANGED <<qc, mainVars, qualityVars, dedupVars, pipeVars>>

\* any detector behaviour: each probe returns some count
ProbeAny == \E c \in 0..MaxCount : Probe(c)

\* scene count of a detector of the monotone family at grid point k
\* (threshold 15 + k * 35 / 2^7): strictly decreasing in k
MonoCount(d, k) ==
  d.base + d.slope * (GridMax - k) + (IF k <= d.cut THEN d.jump ELSE 0)

GridPoint(threshold) == (threshold - LowInit * ThresholdScale) \div GridStep

\* a probe of a detector whose count strictly decreases as the threshold grows
ProbeMono ==
  Probe(MonoCount(detector, GridPoint(Mid(low, high))))

\* scenes, final_threshold = best_result ; return scenes, metadata
Return ==
  /\ sd_pc = "exit"
  /\ scenes' = best_result.scenes
  /\ metadata' = SearchMetadata(Locals, target_scenes)
  /\ sd_pc' = "returned"
  /\ UNCHANGED <<target_scenes, tolerance, low, high, best_result, best_diff,
                 iterations_data, iteration, detector, invocations>>
  /\ UNCHANGED <<qc, mainVars, qualityVars, dedupVars, pipeVars>>

----------------------------------------------------------------------------
(* quality_control.py *)

Min(a, b) == IF a < b THEN a ELSE b

\* QualityControl(blur_threshold=bt, dedup_hash_distance=dist)
QualityControl(bt, dist) ==
  [blur_threshold |-> bt,
   fade_black_threshold |-> FadeBlackThreshold * IntensityScale,
   fade_white_threshold |-> FadeWhiteThreshold * IntensityScale,
   fade_std_threshold |-> FadeStdThreshold * IntensityScale,
   dedup_hash_distance |-> dist]

\* A frame is held by what the image library computes from it: its Laplacian
\* variance, the mean and the standard deviation of its grey levels, and its
\* perceptual hash string.
Frame(blur, mean, std, phash) ==
  [blur |-> blur, mean |-> mean, std |-> std, phash |-> phash]

\* float(laplacian.var())
calculate_blur_score(frame) == frame.blur

\* is_sharp = blur_score >= self.blur_threshold
IsSharpStrict(blur_score, bt) == blur_score > bt
IsSharp(blur_score, bt) == blur_score >= bt

\* intensity_std < self.fade_std_threshold / 2
NearUniformInclusive(std, std_threshold) == 2 * std <= std_threshold
NearUniform(std, std_threshold) == 2 * std < std_threshold

\* check_fade_transition: (is_fade, avg_intensity, intensity_std)
check_fade_transition(q, frame) ==
  LET avg_intensity == frame.mean
      intensity_std == frame.std
      is_fade ==
        IF avg_intensity < q.fade_black_threshold /\ intensity_std < q.fade_std_threshold
          THEN TRUE
        ELSE IF avg_intensity > q.fade_white_threshold /\ intensity_std < q.fade_std_threshold
          THEN TRUE
        ELSE IF NearUniform(intensity_std, q.fade_std_threshold)
          THEN TRUE
        ELSE FALSE
  IN [is_fade |-> is_fade, avg_intensity |-> avg_intensity,
      intensity_std |-> intensity_std]

\* the formatted rejection_reason, held by the check it names and the two
\* numbers it prints
NoReason == [check |-> "", value |-> 0, against |-> 0]
BlurReason(blur_score, bt) == [check |-> "blur", value |-> blur_score, against |-> bt]
FadeReason(avg, std) == [check |-> "fade/transition", value |-> avg, against |-> std]

\* passes = is_sharp and not is_fade
Passes(is_sharp, is_fade) == is_sharp /\ ~is_fade

\* if not is_sharp: reason = blur ... elif is_fade: reason = fade/transition ...
ReasonFadeFirst(q, blur_score, is_sharp, fade) ==
  IF fade.is_fade THEN FadeReason(fade.avg_intensity, fade.intensity_std)
  ELSE IF ~is_sharp THEN BlurReason(blur_score, q.blur_threshold)
  ELSE NoReason
Reason(q, blur_score, is_sharp, fade) ==
  IF ~is_sharp THEN BlurReason(blur_score, q.blur_threshold)
  ELSE IF fade.is_fade THEN FadeReason(fade.avg_intensity, fade.intensity_std)
  ELSE NoReason

evaluate_frame(q, frame, frame_id) ==
  LET blur_score == calculate_blur_score(frame)
      is_sharp == IsSharp(blur_score, q.blur_threshold)
      fade == check_fade_transition(q, frame)
      passes == Passes(is_sharp, fade.is_fade)
  IN [frame_id |-> frame_id,
      laplacian_variance |-> blur_score,
      avg_intensity |-> fade.avg_intensity,
      intensity_std |-> fade.intensity_std,
      is_sharp |-> is_sharp,
      is_transition |-> fade.is_fade,
      passes_quality |-> passes,
      rejection_reason |-> Reason(q, blur_score, is_sharp, fade)]

\* str(hash_value)
compute_phash(frame) == frame.phash

\* sum(c1 != c2 for c1, c2 in zip(hash1, hash2))
hamming_distance(hash1, hash2) ==
  Cardinality({i \in 1..Min(Len(hash1), Len(hash2)) : hash1[i] # hash2[i]})

\* if distance <= self.dedup_hash_distance
IsDuplicateDistanceStrict(distance, limit) == distance < limit
IsDuplicateDistance(distance, limit) == distance <= limit

\* for kept_idx in kept_indices
ScanPrevious(kept, i) == <<i - 1>>
ScanOrder(kept, i) == kept

\* kept_indices.append(i)
KeepFrameInFront(kept, i) == <<i>> \o kept
KeepFrame(kept, i) == Append(kept, i)

\* f"Frame {frame_ids[i]} duplicate of {frame_ids[kept_idx]} (distance={distance})"
DuplicateRecord(frame, of, distance) ==
  [frame |-> frame, of |-> of, distance |-> distance]

\* kept_indices = [0] ; duplicates = []
DedupStart == [kept_indices |-> <<0>>, duplicates |-> <<>>]

\* one pass of the outer loop: frame i (an index from 0) against the kept ones
DedupIterStep(s, i, hs, ids, limit) ==
  LET scan == ScanOrder(s.kept_indices, i)
      hits == {p \in DOMAIN scan :
                 IsDuplicateDistance(hamming_distance(hs[i + 1], hs[scan[p] + 1]), limit)}
  IN IF hits = {}
       THEN [kept_indices |-> KeepFrame(s.kept_indices, i), duplicates |-> s.duplicates]
       ELSE LET first == CHOOSE p \in hits : \A r \in hits : p <= r
                kept_idx == scan[first]
                distance == hamming_distance(hs[i + 1], hs[kept_idx + 1])
            IN [kept_indices |-> s.kept_indices,
                duplicates |-> Append(s.duplicates,
                                      DuplicateRecord(ids[i + 1], ids[kept_idx + 1], distance))]

RECURSIVE DedupLoop(_, _, _, _, _)
DedupLoop(s, i, hs, ids, limit) ==
  IF i >= Len(hs) THEN s
  ELSE DedupLoop(DedupIterStep(s, i, hs, ids, limit), i + 1, hs, ids, limit)

\* the whole of deduplicate_frames: (kept_indices, duplicates)
deduplicate_frames(q, fs, frame_ids) ==
  IF fs = <<>> THEN [kept_indices |-> <<>>, duplicates |-> <<>>]
  ELSE DedupLoop(DedupStart, 1, [j \in DOMAIN fs |-> compute_phash(fs[j])],
                 frame_ids, q.dedup_hash_distance)

\* evaluate_frame applied to the frame
EvaluateFrame ==
  /\ q_pc = "call"
  /\ q_metrics' = evaluate_frame(qc, q_frame, q_id)
  /\ q_pc' = "returned"
  /\ UNCHANGED <<q_frame, q_id>>
  /\ UNCHANGED <<searchVars, qc, mainVars, dedupVars, pipeVars>>

\* deduplicate_frames up to the loop
DedupBegin ==
  /\ dd_pc = "call"
  /\ IF dd_frames = <<>>
       THEN /\ kept_indices' = <<>>
            /\ duplicates' = <<>>
            /\ dd_pc' = "returned"
            /\ UNCHANGED <<hashes, dd_i>>
       ELSE /\ hashes' = [j \in DOMAIN dd_frames |-> compute_phash(dd_frames[j])]
            /\ kept_indices' = DedupStart.kept_indices
            /\ duplicates' = DedupStart.duplicates
            /\ dd_i' = 1
            /\ dd_pc' = IF Len(dd_frames) > 1 THEN "loop" ELSE "returned"
  /\ UNCHANGED <<dd_frames, dd_ids, dd_run, dd_first>>
  /\ UNCHANGED <<searchVars, qc, mainVars, qualityVars, pipeVars>>

\* one pass of the outer loop, and the return after the last one
DedupIter ==
  /\ dd_pc = "loop"
  /\ LET s == DedupIterStep([kept_indices |-> kept_indices, duplicates |-> duplicates],
                            dd_i, hashes, dd_ids, qc.dedup_hash_distance)
     IN /\ kept_indices' = s.kept_indices
        /\ duplicates' = s.duplicates
  /\ dd_i' = dd_i + 1
  /\ dd_pc' = IF dd_i + 1 < Len(dd_frames) THEN "loop" ELSE "returned"
  /\ UNCHANGED <<dd_frames, dd_ids, hashes, dd_run, dd_first>>
  /\ UNCHANGED <<searchVars, qc, mainVars, qualityVars, pipeVars>>

\* the frames and ids a caller selects with kept_indices
Select(seq, kept) == [j \in DOMAIN kept |-> seq[kept[j] + 1]]

\* deduplicate_frames called again, on the frames it kept
DedupAgain ==
  /\ dd_pc = "returned"
  /\ dd_run = 1
  /\ dd_first' = [frames |-> dd_frames, ids |-> dd_ids,
                  kept_indices |-> kept_indices, duplicates |-> duplicates]
  /\ dd_frames' = Select(dd_frames, kept_indices)
  /\ dd_ids' = Select(dd_ids, kept_indices)
  /\ dd_run' = 2
  /\ dd_pc' = "call"
  /\ UNCHANGED <<hashes, kept_indices, duplicates, dd_i>>
  /\ UNCHANGED <<searchVars, qc, mainVars, qualityVars, pipeVars>>

----------------------------------------------------------------------------
(* values of the state outside a call *)

NoFrame == Frame(0, 0, 0, <<>>)
NoMetrics == evaluate_frame(QualityControl(0, 0), NoFrame, 0)
NoFirstRun == [frames |-> <<>>, ids |-> <<>>, kept_indices |-> <<>>, duplicates |-> <<>>]

QualityIdle ==
  /\ q_frame = NoFrame
  /\ q_id = 0
  /\ q_pc = "idle"
  /\ q_metrics = NoMetrics

DedupIdle ==
  /\ dd_frames = <<>>
  /\ dd_ids = <<>>
  /\ hashes = <<>>
  /\ kept_indices = <<>>
  /\ duplicates = <<>>
  /\ dd_i = 0
  /\ dd_pc = "idle"
  /\ dd_run = 0
  /\ dd_first = NoFirstRun

SearchIdle ==
  /\ target_scenes = 0
  /\ tolerance = 0
  /\ detector = NoDetector
  /\ low = SearchStart.low
  /\ high = SearchStart.high
  /\ best_result = SearchStart.best_result
  /\ best_diff = SearchStart.best_diff
  /\ iterations_data = SearchStart.iterations_data
  /\ iteration = SearchStart.iteration
  /\ sd_pc = "idle"
  /\ scenes = <<>>
  /\ metadata = NoMetadata
  /\ invocations = 0

----------------------------------------------------------------------------
(* pipeline.py: the whole of process_video *)

\* SceneDetector(threshold).detect_scenes when the detector finds c scenes
detect_scenes_fixed(c, threshold) ==
  [scenes |-> SceneList(c),
   metadata |-> [total_scenes |-> c, threshold_used |-> threshold]]

\* scene_metadata.get('threshold_used', scene_metadata.get('final_threshold', 27.0))
DetectionThreshold(md) ==
  IF "threshold_used" \in DOMAIN md THEN md.threshold_used
  ELSE IF "final_threshold" \in DOMAIN md THEN md.final_threshold
  ELSE SceneThresholdDefault * ThresholdScale

\* what process_video keeps of the metadata: the scene count, the threshold
\* and the length of the iteration trace (0 for the fixed detector)
MetadataKept(md) ==
  [total_scenes |-> md.total_scenes,
   detection_threshold |-> DetectionThreshold(md),
   probes |-> IF "iterations" \in DOMAIN md THEN Len(md.iterations) ELSE 0]

\* if not scenes: return None
NoScenesAccepts(sc) == FALSE
NoScenes(sc) == sc = <<>>

\* STEP 1 with the fixed detector: scenes, scene_metadata =
\* self.scene_detector.detect_scenes(video_path) ; if not scenes: return None
DetectFixed(c) ==
  /\ pv_pc = "step1"
  /\ ~adaptive_detection
  /\ LET r == detect_scenes_fixed(c, SceneThresholdDefault * ThresholdScale)
     IN /\ scenes' = r.scenes
        /\ scene_metadata' = MetadataKept(r.metadata)
        /\ IF NoScenes(r.scenes)
             THEN pv_pc' = "aborted" /\ result' = "None"
             ELSE pv_pc' = "step2" /\ result' = result
  /\ UNCHANGED <<target_scenes, tolerance, low, high, best_result, best_diff,
                 iterations_data, iteration, sd_pc, metadata, detector, invocations>>
  /\ UNCHANGED <<adaptive_detection, reads, frames, frame_scenes,
                 quality_passed_frames, quality_passed_scenes, quality_metrics_list,
                 blur_rejected, transition_rejected, final_frames, final_scenes,
                 dedup_removed, duplicate_info, saved_paths, files, stats, report>>
  /\ UNCHANGED <<qc, mainVars, qualityVars, dedupVars>>

\* STEP 1 with the adaptive detector: detect_scenes has returned scenes and
\* metadata and its locals are gone ; if not scenes: return None
CheckScenes ==
  /\ pv_pc = "step1"
  /\ sd_pc = "returned"
  /\ scene_metadata' = MetadataKept(metadata)
  /\ IF NoScenes(scenes)
       THEN pv_pc' = "aborted" /\ result' = "None"
       ELSE pv_pc' = "step2" /\ result' = result
  /\ low' = SearchStart.low
  /\ high' = SearchStart.high
  /\ best_result' = SearchStart.best_result
  /\ best_diff' = SearchStart.best_diff
  /\ iterations_data' = SearchStart.iterations_data
  /\ iteration' = SearchStart.iteration
  /\ metadata' = NoMetadata
  /\ sd_pc' = "idle"
  /\ UNCHANGED <<target_scenes, tolerance, scenes, detector, invocations>>
  /\ UNCHANGED <<adaptive_detection, reads, frames, frame_scenes,
                 quality_passed_frames, quality_passed_scenes, quality_metrics_list,
                 blur_rejected, transition_rejected, final_frames, final_scenes,
                 dedup_removed, duplicate_info, saved_paths, files, stats, report>>
  /\ UNCHANGED <<qc, mainVars, qualityVars, dedupVars>>

\* ret, frame = cap.read()
ReadFailed == [ret |-> FALSE, frame |-> NoFrame]
ReadOk(frame) == [ret |-> TRUE, frame |-> frame]

\* _extract_keyframes: (frames, valid_scenes)
ExtractKeyframesOf(sc, rd) ==
  LET F[i \in 0..Len(sc)] ==
        IF i = 0 THEN [frames |-> <<>>, valid_scenes |-> <<>>]
        ELSE IF rd[i].ret
          THEN [frames |-> Append(F[i - 1].frames, rd[i].frame),
                valid_scenes |-> Append(F[i - 1].valid_scenes, sc[i])]
          ELSE F[i - 1]
  IN F[Len(sc)]

\* STEP 2: frames, frame_scenes = self._extract_keyframes(video_path, scenes)
ExtractKeyframes(rd) ==
  /\ pv_pc = "step2"
  /\ reads' = rd
  /\ LET x == ExtractKeyframesOf(scenes, rd)
     IN /\ frames' = x.frames
        /\ frame_scenes' = x.valid_scenes
  /\ pv_pc' = "step3a"
  /\ UNCHANGED <<adaptive_detection, scene_metadata,
                 quality_passed_frames, quality_passed_scenes, quality_metrics_list,
                 blur_rejected, transition_rejected, final_frames, final_scenes,
                 dedup_removed, duplicate_info, saved_paths, files, stats, report,
                 result>>
  /\ UNCHANGED <<searchVars, qc, mainVars, qualityVars, dedupVars>>

QualityStart ==
  [quality_passed_frames |-> <<>>, quality_passed_scenes |-> <<>>,
   quality_metrics_list |-> <<>>, blur_rejected |-> 0, transition_rejected |-> 0]

\* the body of the loop of step 3a with the continue after a blur rejection
\* left out
QualityStepNoContinue(q, acc, frame, scene) ==
  LET m == evaluate_frame(q, frame, scene.scene_id)
      blur == IF ~m.is_sharp THEN 1 ELSE 0
  IN IF m.is_transition
       THEN [acc EXCEPT !.quality_metrics_list = Append(@, m),
                        !.blur_rejected = @ + blur,
                        !.transition_rejected = @ + 1]
       ELSE [acc EXCEPT !.quality_metrics_list = Append(@, m),
                        !.blur_rejected = @ + blur,
                        !.quality_passed_frames = Append(@, frame),
                        !.quality_passed_scenes = Append(@, scene)]

\* the body of the loop of step 3a
QualityStep(q, acc, frame, scene) ==
  LET m == evaluate_frame(q, frame, scene.scene_id)
  IN IF ~m.is_sharp
       THEN [acc EXCEPT !.quality_metrics_list = Append(@, m),
                        !.blur_rejected = @ + 1]
     ELSE IF m.is_transition
       THEN [acc EXCEPT !.quality_metrics_list = Append(@, m),
                        !.transition_rejected = @ + 1]
     ELSE [acc EXCEPT !.quality_metrics_list = Append(@, m),
                      !.quality_passed_frames = Append(@, frame),
                      !.quality_passed_scenes = Append(@, scene)]

\* for frame, scene in zip(frames, frame_scenes): ...
QualityLoop(q, fs, ss) ==
  LET F[i \in 0..Min(Len(fs), Len(ss))] ==
        IF i = 0 THEN QualityStart ELSE QualityStep(q, F[i - 1], fs[i], ss[i])
  IN F[Min(Len(fs), Len(ss))]

\* STEP 3a: blur and transition filtering
QualityFilter ==
  /\ pv_pc = "step3a"
  /\ LET acc == QualityLoop(qc, frames, frame_scenes)
     IN /\ quality_passed_frames' = acc.quality_passed_frames
        /\ quality_passed_scenes' = acc.quality_passed_scenes
        /\ quality_metrics_list' = acc.quality_metrics_list
        /\ blur_rejected' = acc.blur_rejected
        /\ transition_rejected' = acc.transition_rejected
  /\ pv_pc' = "step3b"
  /\ UNCHANGED <<adaptive_detection, reads, scene_metadata, frames, frame_scenes,
                 final_frames, final_scenes, dedup_removed, duplicate_info,
                 saved_paths, files, stats, report, result>>
  /\ UNCHANGED <<searchVars, qc, mainVars, qualityVars, dedupVars>>

\* [s.scene_id for s in quality_passed_scenes]
SceneIds(ss) == [j \in DOMAIN ss |-> ss[j].scene_id]

\* if len(quality_passed_frames) > 1
DedupWanted(passed) == Len(passed) > 1

\* STEP 3b: deduplication
DeduplicationOf(q, passed_frames, passed_scenes) ==
  IF DedupWanted(passed_frames)
    THEN LET d == deduplicate_frames(q, passed_frames, SceneIds(passed_scenes))
             ff == Select(passed_frames, d.kept_indices)
         IN [final_frames |-> ff,
             final_scenes |-> Select(passed_scenes, d.kept_indices),
             dedup_removed |-> Len(passed_frames) - Len(ff),
             duplicate_info |-> d.duplicates]
    ELSE [final_frames |-> passed_frames,
          final_scenes |-> passed_scenes,
          dedup_removed |-> 0,
          duplicate_info |-> <<>>]

Deduplicate ==
  /\ pv_pc = "step3b"
  /\ LET d == DeduplicationOf(qc, quality_passed_frames, quality_passed_scenes)
     IN /\ final_frames' = d.final_frames
        /\ final_scenes' = d.final_scenes
        /\ dedup_removed' = d.dedup_removed
        /\ duplicate_info' = d.duplicate_info
  /\ pv_pc' = "step4"
  /\ UNCHANGED <<adaptive_detection, reads, scene_metadata, frames, frame_scenes,
                 quality_passed_frames, quality_passed_scenes, quality_metrics_list,
                 blur_rejected, transition_rejected, saved_paths, files, stats,
                 report, result>>
  /\ UNCHANGED <<searchVars, qc, mainVars, qualityVars, dedupVars>>

\* keyframe_dir / f"scene_{scene.scene_id:04d}_t{scene.start_time:.2f}s.jpg"
KeyframePath(scene) == [kind |-> "keyframe", scene_id |-> scene.scene_id]
\* report_dir / f"{video_id}_report.json"
ReportPath == [kind |-> "report", scene_id |-> 0]

\* _save_keyframes: saved_paths
SaveKeyframesOf(fs, ss) ==
  [j \in 1..Min(Len(fs), Len(ss)) |-> KeyframePath(ss[j])]

\* STEP 4: saved_paths = self._save_keyframes(final_frames, final_scenes, keyframe_dir)
SaveKeyframes ==
  /\ pv_pc = "step4"
  /\ saved_paths' = SaveKeyframesOf(final_frames, final_scenes)
  /\ files' = files \cup {saved_paths'[j] : j \in DOMAIN saved_paths'}
  /\ pv_pc' = "step5"
  /\ UNCHANGED <<adaptive_detection, reads, scene_metadata, frames, frame_scenes,
                 quality_passed_frames, quality_passed_scenes, quality_metrics_list,
                 blur_rejected, transition_rejected, final_frames, final_scenes,
                 dedup_removed, duplicate_info, stats, report, result>>
  /\ UNCHANGED <<searchVars, qc, mainVars, qualityVars, dedupVars>>

\* blur_scores = [m.laplacian_variance for m in quality_metrics_list if m.passes_quality]
BlurScoresOf(ms) ==
  LET F[i \in 0..Len(ms)] ==
        IF i = 0 THEN <<>>
        ELSE IF ms[i].passes_quality THEN Append(F[i - 1], ms[i].laplacian_variance)
        ELSE F[i - 1]
  IN F[Len(ms)]

SumOf(xs) ==
  LET F[i \in 0..Len(xs)] == IF i = 0 THEN 0 ELSE F[i - 1] + xs[i]
  IN F[Len(xs)]
MinOf(xs) == CHOOSE x \in {xs[i] : i \in DOMAIN xs} : \A i \in DOMAIN xs : x <= xs[i]
MaxOf(xs) == CHOOSE x \in {xs[i] : i \in DOMAIN xs} : \A i \in DOMAIN xs : x >= xs[i]

\* ProcessingStats(...); the path, the durations and the processing time are
\* left out; avg_blur_score is held as the fraction sum / len
ProcessingStats(sc, md, fs, blur_rej, trans_rej, dedup_rem, final, ms) ==
  LET blur_scores == BlurScoresOf(ms)
  IN [scenes_detected |-> Len(sc),
      detection_threshold |-> md.detection_threshold,
      frames_extracted |-> Len(fs),
      frames_blur_rejected |-> blur_rej,
      frames_transition_rejected |-> trans_rej,
      frames_dedup_removed |-> dedup_rem,
      frames_final |-> Len(final),
      avg_blur_score |-> IF blur_scores # <<>>
                           THEN [sum |-> SumOf(blur_scores), len |-> Len(blur_scores)]
                           ELSE [sum |-> 0, len |-> 1],
      min_blur_score |-> IF blur_scores # <<>> THEN MinOf(blur_scores) ELSE 0,
      max_blur_score |-> IF blur_scores # <<>> THEN MaxOf(blur_scores) ELSE 0]

NoStats == ProcessingStats(<<>>, [detection_threshold |-> 0], <<>>, 0, 0, 0, <<>>, <<>>)
NoReport == [written |-> FALSE, stats |-> NoStats, scene_metadata |-> MetadataKept(NoMetadata),
             quality_metrics |-> <<>>, duplicate_info |-> <<>>, final_keyframes |-> <<>>]

\* STEP 5: stats = ProcessingStats(...) ; report = {...} ; json.dump(report, f)
WriteReport ==
  /\ pv_pc = "step5"
  /\ stats' = ProcessingStats(scenes, scene_metadata, frames, blur_rejected,
                              transition_rejected, dedup_removed, final_frames,
                              quality_metrics_list)
  /\ report' = [written |-> TRUE,
                stats |-> stats',
                scene_metadata |-> scene_metadata,
                quality_metrics |-> quality_metrics_list,
                duplicate_info |-> duplicate_info,
                final_keyframes |->
                  [j \in 1..Min(Len(final_scenes), Len(saved_paths)) |->
                     [scene_id |-> final_scenes[j].scene_id, path |-> saved_paths[j]]]]
  /\ files' = files \cup {ReportPath}
  /\ pv_pc' = "summary"
  /\ UNCHANGED <<adaptive_detection, reads, scene_metadata, frames, frame_scenes,
                 quality_passed_frames, quality_passed_scenes, quality_metrics_list,
                 blur_rejected, transition_rejected, final_frames, final_scenes,
                 dedup_removed, duplicate_info, saved_paths, result>>
  /\ UNCHANGED <<searchVars, qc, mainVars, qualityVars, dedupVars>>

\* _print_summary divides by stats.frames_extracted
SummaryRaises(st) == st.frames_extracted = 0

\* self._print_summary(stats) ; return stats
PrintSummary ==
  /\ pv_pc = "summary"
  /\ IF SummaryRaises(stats)
       THEN pv_pc' = "raised" /\ result' = "ZeroDivisionError"
       ELSE pv_pc' = "done" /\ result' = "stats"
  /\ UNCHANGED <<adaptive_detection, reads, scene_metadata, frames, frame_scenes,
                 quality_passed_frames, quality_passed_scenes, quality_metrics_list,
                 blur_rejected, transition_rejected, final_frames, final_scenes,
                 dedup_removed, duplicate_info, saved_paths, files, stats, report>>
  /\ UNCHANGED <<searchVars, qc, mainVars, qualityVars, dedupVars>>

\* process_video called without run.py
MainIdle ==
  /\ video_path = "exists"
  /\ main_pc = "idle"
  /\ exit_status = 0

PipeDataIdle ==
  /\ reads = <<>>
  /\ scene_metadata = MetadataKept(NoMetadata)
  /\ frames = <<>>
  /\ frame_scenes = <<>>
  /\ quality_passed_frames = <<>>
  /\ quality_passed_scenes = <<>>
  /\ quality_metrics_list = <<>>
  /\ blur_rejected = 0
  /\ transition_rejected = 0
  /\ final_frames = <<>>
  /\ final_scenes = <<>>
  /\ dedup_removed = 0
  /\ duplicate_info = <<>>
  /\ saved_paths = <<>>
  /\ files = {}
  /\ stats = NoStats
  /\ report = NoReport
  /\ result = "running"

----------------------------------------------------------------------------
(* run.py *)

\* sys.exit(1), and the status of an interpreter that ends on an uncaught
\* exception
ExitFailure == 1
\* the status of an interpreter whose main() returned
ExitSuccess == 0

ContactSheetPath == [kind |-> "contact_sheet", scene_id |-> 0]
HtmlReportPath == [kind |-> "html_report", scene_id |-> 0]

\* sorted(keyframe_dir.glob("*.jpg"))
ImagePaths(fs) == {f \in fs : f.kind = "keyframe"}

\* main returns after `if stats:`, whatever process_video returned; an
\* exception process_video raised is caught nowhere
ExitStatus(res) == IF res \in {"stats", "None"} THEN ExitSuccess ELSE ExitFailure

\* main up to the call of process_video: the argument checks, then
\* KeyframeExtractionPipeline(blur_threshold=5.0, adaptive_detection=True)
MainStart ==
  /\ main_pc = "start"
  /\ IF video_path # "exists"
       THEN /\ main_pc' = "exited"
            /\ exit_status' = ExitFailure
            /\ UNCHANGED <<adaptive_detection, target_scenes, tolerance, qc,
                           sd_pc, pv_pc>>
       ELSE /\ main_pc' = "process"
            /\ exit_status' = exit_status
            /\ adaptive_detection' = TRUE
            /\ target_scenes' = TargetScenesDefault
            /\ tolerance' = ToleranceDefault
            /\ qc' = QualityControl(BlurThresholdRun, DedupHashDistance)
            /\ sd_pc' = "loop"
            /\ pv_pc' = "step1"
  /\ UNCHANGED <<video_path, low, high, best_result, best_diff, iterations_data,
                 iteration, scenes, metadata, detector, invocations>>
  /\ UNCHANGED <<qualityVars, dedupVars>>
  /\ UNCHANGED <<reads, scene_metadata, frames, frame_scenes,
                 quality_passed_frames, quality_passed_scenes,
                 quality_metrics_list, blur_rejected, transition_rejected,
                 final_frames, final_scenes, dedup_removed, duplicate_info,
                 saved_paths, files, stats, report, result>>

\* main after process_video: if stats: the contact sheet and the HTML report,
\* when the keyframe directory holds images; then main returns
MainFinish ==
  /\ main_pc = "process"
  /\ pv_pc \in {"aborted", "done", "raised"}
  /\ files' = IF result = "stats" /\ ImagePaths(files) # {}
                THEN files \cup {ContactSheetPath, HtmlReportPath}
                ELSE files
  /\ exit_status' = ExitStatus(result)
  /\ main_pc' = "exited"
  /\ UNCHANGED <<searchVars, qc, qualityVars, dedupVars, pv_pc, video_path>>
  /\ UNCHANGED <<adaptive_detection, reads, scene_metadata, frames, frame_scenes,
                 quality_passed_frames, quality_passed_scenes,
                 quality_metrics_list, blur_rejected, transition_rejected,
                 final_frames, final_scenes, dedup_removed, duplicate_info,
                 saved_paths, stats, report, result>>

----------------------------------------------------------------------------
(* Specifications *)

SearchLocalsInit ==
  /\ low = SearchStart.low
  /\ high = SearchStart.high
  /\ best_result = SearchStart.best_result
  /\ best_diff = SearchStart.best_diff
  /\ iterations_data = SearchStart.iterations_data
  /\ iteration = SearchStart.iteration
  /\ sd_pc = "loop"
  /\ scenes = <<>>
  /\ metadata = NoMetadata
  /\ invocations = 0

\* process_video calling AdaptiveSceneDetector(target, tolerance).detect_scenes
\* over an arbitrary detector
InitSearch ==
  /\ target_scenes \in 1..MaxTarget
  /\ tolerance \in 0..MaxTolerance
  /\ detector = NoDetector
  /\ SearchLocalsInit
  /\ pv_pc = "step1"
  /\ adaptive_detection = TRUE
  /\ PipeDataIdle
  /\ MainIdle
  /\ qc = QualityControl(BlurThresholdDefault, DedupHashDistance)
  /\ QualityIdle
  /\ DedupIdle

NextSearch == ProbeAny \/ Return \/ CheckScenes

SpecSearch == InitSearch /\ [][NextSearch]_vars

\* the end-to-end example: target 10, tolerance 2, a strictly decreasing detector
InitMono ==
  /\ target_scenes = ExampleTarget
  /\ tolerance = ExampleTolerance
  /\ detector \in [base : 0..MaxBase, slope : 1..MaxSlope, cut : 0..GridMax,
                   jump : 0..MaxJump]
  /\ SearchLocalsInit
  /\ pv_pc = "step1"
  /\ adaptive_detection = TRUE
  /\ PipeDataIdle
  /\ MainIdle
  /\ qc = QualityControl(BlurThresholdDefault, DedupHashDistance)
  /\ QualityIdle
  /\ DedupIdle

NextMono == ProbeMono \/ Return \/ CheckScenes

SpecMono == InitMono /\ [][NextMono]_vars

\* a fingerprint: head characters changed at the front and, if tail, the last
\* dedup_hash_distance characters changed too
Fingerprint(head, tail) ==
  [i \in 1..HashLen |->
     IF i <= head THEN 1
     ELSE IF tail /\ i > HashLen - DedupHashDistance THEN 2
     ELSE 0]

Fingerprints == {Fingerprint(h, t) : h \in 0..MaxHead, t \in BOOLEAN}

Around(x) == (x - MaxDelta)..(x + MaxDelta)

BlurScores(bt) == {0} \cup Around(bt)
Means == {0, MaxIntensity * IntensityScale}
           \cup Around(FadeBlackThreshold * IntensityScale)
           \cup Around(FadeWhiteThreshold * IntensityScale)
Stds == {0} \cup Around((FadeStdThreshold * IntensityScale) \div 2)
            \cup Around(FadeStdThreshold * IntensityScale)

\* sharp frames that are no transition, one per fingerprint
DedupFrames ==
  {Frame(BlurThresholdDefault, (MaxIntensity * IntensityScale) \div 2,
         2 * FadeStdThreshold * IntensityScale, h) : h \in Fingerprints}

IncreasingIds(n) ==
  {f \in [1..n -> 0..MaxFrames] : \A i \in 1..(n - 1) : f[i] < f[i + 1]}

\* evaluate_frame over frames whose scores lie around the thresholds
InitQuality ==
  /\ qc \in {QualityControl(bt, DedupHashDistance) :
               bt \in {BlurThresholdDefault, BlurThresholdRun}}
  /\ \E blur \in BlurScores(qc.blur_threshold), mean \in Means, std \in Stds :
       q_frame = Frame(blur, mean, std, Fingerprint(0, FALSE))
  /\ q_id \in 0..(MaxFrames - 1)
  /\ q_pc = "call"
  /\ q_metrics = NoMetrics
  /\ DedupIdle
  /\ SearchIdle
  /\ pv_pc = "idle"
  /\ adaptive_detection = FALSE
  /\ PipeDataIdle
  /\ MainIdle

NextQuality == EvaluateFrame

SpecQuality == InitQuality /\ [][NextQuality]_vars

\* deduplicate_frames over every short sequence of fingerprints, then again
\* over what it kept
InitDedup ==
  /\ qc = QualityControl(BlurThresholdDefault, DedupHashDistance)
  /\ \E n \in 0..MaxFrames :
       /\ dd_frames \in [1..n -> DedupFrames]
       /\ dd_ids \in IncreasingIds(n)
  /\ hashes = <<>>
  /\ kept_indices = <<>>
  /\ duplicates = <<>>
  /\ dd_i = 0
  /\ dd_pc = "call"
  /\ dd_run = 1
  /\ dd_first = NoFirstRun
  /\ QualityIdle
  /\ SearchIdle
  /\ pv_pc = "idle"
  /\ adaptive_detection = FALSE
  /\ PipeDataIdle
  /\ MainIdle

NextDedup == DedupBegin \/ DedupIter \/ DedupAgain

SpecDedup == InitDedup /\ [][NextDedup]_vars

\* frames of the pipeline's inputs: three sharp frames with fingerprints at
\* distances 5, 6 and 1, a blurred one, a sharp fade to black and a blurred
\* fade to black
MidGrey == (MaxIntensity * IntensityScale) \div 2
WideStd == 2 * FadeStdThreshold * IntensityScale
PipeFramesAt(bt) ==
  {Frame(bt, MidGrey, WideStd, Fingerprint(0, FALSE)),
   Frame(bt + 1, MidGrey, WideStd, Fingerprint(0, TRUE)),
   Frame(bt + 2, MidGrey, WideStd, Fingerprint(1, TRUE)),
   Frame(bt - 1, MidGrey, WideStd, Fingerprint(0, FALSE)),
   Frame(bt, 0, 0, Fingerprint(0, FALSE)),
   Frame(bt - 1, 0, 0, Fingerprint(0, FALSE))}

PipeFrames == PipeFramesAt(BlurThresholdDefault)

PipeReads == {ReadFailed} \cup {ReadOk(f) : f \in PipeFrames}

\* targets the pipeline's adaptive detector is built with: the default, and
\* one that a single scene already satisfies
PipeTargets == {TargetScenesDefault, ToleranceDefault + 1}

\* KeyframeExtractionPipeline(adaptive_detection, target_scenes).process_video
Init ==
  /\ adaptive_detection \in BOOLEAN
  /\ IF adaptive_detection
       THEN target_scenes \in PipeTargets /\ tolerance = ToleranceDefault
       ELSE target_scenes = 0 /\ tolerance = 0
  /\ detector = NoDetector
  /\ low = SearchStart.low
  /\ high = SearchStart.high
  /\ best_result = SearchStart.best_result
  /\ best_diff = SearchStart.best_diff
  /\ iterations_data = SearchStart.iterations_data
  /\ iteration = SearchStart.iteration
  /\ sd_pc = IF adaptive_detection THEN "loop" ELSE "idle"
  /\ scenes = <<>>
  /\ metadata = NoMetadata
  /\ invocations = 0
  /\ qc = QualityControl(BlurThresholdDefault, DedupHashDistance)
  /\ QualityIdle
  /\ DedupIdle
  /\ PipeDataIdle
  /\ MainIdle
  /\ pv_pc = "step1"

Extract == \E rd \in [1..Len(scenes) -> PipeReads] : ExtractKeyframes(rd)

Detect == \E c \in 0..MaxCount : DetectFixed(c)

Next ==
  \/ Detect
  \/ ProbeAny
  \/ Return
  \/ CheckScenes
  \/ Extract
  \/ QualityFilter
  \/ Deduplicate
  \/ SaveKeyframes
  \/ WriteReport
  \/ PrintSummary

Spec == Init /\ [][Next]_vars

\* python run.py [video_path]: main, with the pipeline it builds
InitMain ==
  /\ video_path \in {"absent", "missing", "exists"}
  /\ main_pc = "start"
  /\ exit_status = ExitSuccess
  /\ qc = QualityControl(BlurThresholdDefault, DedupHashDistance)
  /\ SearchIdle
  /\ QualityIdle
  /\ DedupIdle
  /\ adaptive_detection = FALSE
  /\ pv_pc = "idle"
  /\ reads = <<>>
  /\ scene_metadata = MetadataKept(NoMetadata)
  /\ frames = <<>>
  /\ frame_scenes = <<>>
  /\ quality_passed_frames = <<>>
  /\ quality_passed_scenes = <<>>
  /\ quality_metrics_list = <<>>
  /\ blur_rejected = 0
  /\ transition_rejected = 0
  /\ final_frames = <<>>
  /\ final_scenes = <<>>
  /\ dedup_removed = 0
  /\ duplicate_info = <<>>
  /\ saved_paths = <<>>
  /\ files = {}
  /\ stats = NoStats
  /\ report = NoReport
  /\ result = "running"

PipeReadsRun == {ReadFailed} \cup {ReadOk(f) : f \in PipeFramesAt(BlurThresholdRun)}

ExtractRun == \E rd \in [1..Len(scenes) -> PipeReadsRun] : ExtractKeyframes(rd)

NextMain ==
  \/ MainStart
  \/ ProbeAny
  \/ Return
  \/ CheckScenes
  \/ ExtractRun
  \/ QualityFilter
  \/ Deduplicate
  \/ SaveKeyframes
  \/ WriteReport
  \/ PrintSummary
  \/ MainFinish

SpecMain == InitMain /\ [][NextMain]_vars

\* the five-scene example: blur scores of the five frames, threshold 100
ExampleBlur == <<150, 40, 200, 180, 190>>

\* fp with the characters at the positions of S replaced by c
Mark(fp, S, c) == [i \in 1..HashLen |-> IF i \in S THEN c ELSE fp[i]]

\* frame 3: more than dedup_hash_distance characters away from frame 1
ExampleThird == Fingerprint(DedupHashDistance + 1, FALSE)
\* frame 5: frame 3 with the three characters from position k on changed
ExampleFifth(k) == Mark(ExampleThird, k..(k + 2), 2)
\* frame 4: far from frames 1, 3 and 5, or the fingerprint of frame 1
ExampleFourth(far) ==
  IF far THEN Mark(Fingerprint(0, FALSE), (HashLen - DedupHashDistance)..HashLen, 2)
  ELSE Fingerprint(0, FALSE)

\* what the frame source answers for the five scenes: every read succeeds
\* and only frame 2 may be a fade
ExampleReads ==
  {[i \in 1..Len(ExampleBlur) |->
      ReadOk(Frame(ExampleBlur[i],
                   IF i = 2 THEN mean ELSE MidGrey,
                   IF i = 2 THEN mean ELSE WideStd,
                   CASE i = 1 -> Fingerprint(0, FALSE)
                     [] i = 2 -> second
                     [] i = 3 -> ExampleThird
                     [] i = 4 -> ExampleFourth(far)
                     [] OTHER -> ExampleFifth(k)))] :
     mean \in {0, MidGrey}, second \in Fingerprints, far \in BOOLEAN,
     k \in 1..(HashLen - 2)}

\* KeyframeExtractionPipeline(blur_threshold=100, dedup_hash_distance=5)
\* .process_video over a video of five scenes
InitExample ==
  /\ adaptive_detection = FALSE
  /\ SearchIdle
  /\ qc = QualityControl(BlurThresholdDefault, DedupHashDistance)
  /\ QualityIdle
  /\ DedupIdle
  /\ PipeDataIdle
  /\ MainIdle
  /\ pv_pc = "step1"

DetectExample == DetectFixed(Len(ExampleBlur))

ExtractExample == \E rd \in ExampleReads : ExtractKeyframes(rd)

NextExample ==
  \/ DetectExample
  \/ ExtractExample
  \/ QualityFilter
  \/ Deduplicate
  \/ SaveKeyframes
  \/ WriteReport
  \/ PrintSummary

SpecExample == InitExample /\ [][NextExample]_vars

----------------------------------------------------------------------------
(* Claims about the adaptive search *)

Trace == iterations_data
LastProbe == iterations_data[Len(iterations_data)]

NoProbeConverged ==
  \A i \in DOMAIN iterations_data : iterations_data[i].diff > tolerance

MinDiffProbe(i) ==
  \A j \in DOMAIN iterations_data : iterations_data[i].diff <= iterations_data[j].diff

\* C1: when no probe has diff within the tolerance, the scenes and the
\* threshold detect_scenes returns are those of a probe whose diff is the
\* minimum over the whole iteration trace, for any detector behaviour.
C1_BestSeenReturned ==
  (sd_pc = "returned" /\ NoProbeConverged) =>
    \E i \in DOMAIN iterations_data :
      /\ MinDiffProbe(i)
      /\ metadata.final_threshold = iterations_data[i].threshold
      /\ scenes = SceneList(iterations_data[i].scenes)

\* the search used its whole budget without converging and its last probe
\* is not a best one
C1_Witness ==
  /\ sd_pc = "returned"
  /\ NoProbeConverged
  /\ Len(iterations_data) = MaxIterations
  /\ ~MinDiffProbe(MaxIterations)
  /\ Len(scenes) # LastProbe.scenes

\* C2: as soon as a probe has diff <= tolerance the search stops (no further
\* detector invocation) and the scenes and final_threshold returned are those
\* of that probe, which is the last entry of the iteration trace.
C2_StopsAtConvergedProbe ==
  /\ sd_pc # "idle" => invocations = Len(iterations_data)
  /\ sd_pc = "idle" => invocations = scene_metadata.probes
  /\ \A i \in DOMAIN iterations_data :
       iterations_data[i].diff <= tolerance =>
         /\ i = Len(iterations_data)
         /\ sd_pc # "loop"
  /\ (sd_pc = "returned" /\ ~NoProbeConverged) =>
       /\ scenes = SceneList(LastProbe.scenes)
       /\ metadata.final_threshold = LastProbe.threshold
       /\ metadata.iterations = iterations_data
       /\ metadata.total_scenes = LastProbe.scenes

\* the search converged on a probe that is neither the first nor the last of
\* the budget, after a probe with a smaller count and one with a larger count
C2_Witness ==
  /\ sd_pc = "returned"
  /\ Len(iterations_data) > 2
  /\ Len(iterations_data) < MaxIterations
  /\ LastProbe.diff <= tolerance
  /\ LastProbe.diff > 0

ToleratedAt(k) == Abs(MonoCount(detector, k) - ExampleTarget) <= ExampleTolerance

SearchMetExample ==
  /\ Abs(Len(scenes) - ExampleTarget) <= ExampleTolerance
  /\ LastProbe.diff <= ExampleTolerance
  /\ invocations <= MaxIterations

\* C3 as stated: whenever some threshold within [15, 50] yields a count within
\* 2 of 10, the search converges within 7 probes to such a count.
C3_AnyThresholdInBounds ==
  (sd_pc = "returned" /\ \E k \in 0..GridMax : ToleratedAt(k)) => SearchMetExample

\* C3 as amended: target 10, tolerance 2, a detector whose count strictly
\* decreases as the threshold grows: whenever some threshold 15 + k * 35/128
\* with 0 < k < 128 (the thresholds 7 bisections of [15, 50] can probe, the
\* bounds 15 and 50 not among them) yields a count within 2 of 10, the search
\* converges within 7 probes to such a count.
C3_ProbeableThreshold ==
  (sd_pc = "returned" /\ \E k \in 1..(GridMax - 1) : ToleratedAt(k)) => SearchMetExample

\* the search converged on its 7th probe only
C3_Witness ==
  /\ sd_pc = "returned"
  /\ \E k \in 1..(GridMax - 1) : ToleratedAt(k)
  /\ Len(iterations_data) = MaxIterations
  /\ SearchMetExample

ZeroSceneProbes == {i \in DOMAIN iterations_data : iterations_data[i].scenes = 0}

SearchWentOn(i) == i < Len(iterations_data) \/ sd_pc = "loop"

\* once process_video has the scenes, it has aborted and returned None exactly
\* if there are none
FatalOnEmpty ==
  pv_pc # "step1" =>
    /\ (pv_pc = "aborted") <=> (scenes = <<>>)
    /\ (result = "None") <=> (scenes = <<>>)

\* C4 as stated: a zero-scene probe is recorded with diff = T and the search
\* always continues with the next probe; a final zero-scene result is fatal.
C4_ZeroProbeAlwaysContinues ==
  /\ \A i \in ZeroSceneProbes :
       iterations_data[i].diff = target_scenes /\ SearchWentOn(i)
  /\ FatalOnEmpty

\* C4 as amended: a zero-scene probe is recorded with diff = T, and the search
\* continues with the next probe exactly when T > tolerance and the probe is
\* not the 7th; a final zero-scene result is fatal to process_video.
C4_ZeroProbeContinuesUnlessTolerated ==
  /\ \A i \in ZeroSceneProbes :
       /\ iterations_data[i].diff = target_scenes
       /\ SearchWentOn(i) <=> (target_scenes > tolerance /\ i < MaxIterations)
  /\ FatalOnEmpty

\* a zero-scene probe was followed by further probes, the result returned in
\* the end has no scenes and process_video aborted
C4_Witness ==
  /\ pv_pc = "aborted"
  /\ result = "None"
  /\ scenes = <<>>
  /\ scene_metadata.probes = MaxIterations

----------------------------------------------------------------------------
(* Claims about process_video *)

IdsOf(ss) == {ss[j].scene_id : j \in DOMAIN ss}
\* the scenes whose frame the frame source could read
ReadScenes == {scenes[i].scene_id : i \in {k \in DOMAIN reads : reads[k].ret}}
\* the scenes whose frame evaluate_frame let pass
PassedScenes ==
  {quality_metrics_list[j].frame_id :
     j \in {k \in DOMAIN quality_metrics_list : quality_metrics_list[k].passes_quality}}

AfterExtraction == pv_pc \in {"step3a", "step3b", "step4", "step5", "summary", "done", "raised"}
AfterQuality == pv_pc \in {"step3b", "step4", "step5", "summary", "done", "raised"}
AfterDedup == pv_pc \in {"step4", "step5", "summary", "done", "raised"}
AfterReport == pv_pc \in {"summary", "done", "raised"}

\* C5: in every run that gets past scene detection the final keyframe scenes
\* are a subset of the quality-passed scenes, these of the extracted scenes,
\* these of the detected scenes, and frames_final <= number quality-passed
\* <= frames_extracted <= scenes_detected, whatever the read failures, the
\* quality verdicts and the fingerprints.
C5_StagesNest ==
  /\ AfterExtraction =>
       /\ IdsOf(frame_scenes) = ReadScenes
       /\ IdsOf(frame_scenes) \subseteq IdsOf(scenes)
       /\ Cardinality(IdsOf(frame_scenes)) = Len(frame_scenes)
       /\ Len(frames) = Len(frame_scenes)
       /\ Len(frames) <= Len(scenes)
  /\ AfterQuality =>
       /\ IdsOf(quality_passed_scenes) = PassedScenes
       /\ IdsOf(quality_passed_scenes) \subseteq IdsOf(frame_scenes)
       /\ Cardinality(IdsOf(quality_passed_scenes)) = Len(quality_passed_scenes)
       /\ Len(quality_passed_frames) = Len(quality_passed_scenes)
       /\ Len(quality_passed_frames) <= Len(frames)
  /\ AfterDedup =>
       /\ IdsOf(final_scenes) \subseteq PassedScenes
       /\ Cardinality(IdsOf(final_scenes)) = Len(final_scenes)
       /\ Len(final_frames) = Len(final_scenes)
       /\ Len(final_frames) <= Len(quality_passed_frames)
  /\ AfterReport =>
       /\ stats.frames_final = Len(final_scenes)
       /\ stats.frames_extracted = Len(frame_scenes)
       /\ stats.scenes_detected = Len(scenes)
       /\ stats.frames_final <= Len(quality_passed_scenes)
       /\ Len(quality_passed_scenes) <= stats.frames_extracted
       /\ stats.frames_extracted <= stats.scenes_detected

\* a run in which a read failed, a frame was rejected and a duplicate removed
C5_Witness ==
  /\ pv_pc = "done"
  /\ stats.frames_final < Len(quality_passed_scenes)
  /\ stats.frames_extracted < stats.scenes_detected
  /\ stats.frames_final > 0

----------------------------------------------------------------------------
(* Claims about deduplicate_frames *)

DedupDone == dd_pc = "returned"
FrameCount == Len(dd_frames)
Kept == {kept_indices[j] : j \in DOMAIN kept_indices}
Eliminated == {i \in 1..(FrameCount - 1) : i \notin Kept}
Dist(i, k) == hamming_distance(dd_frames[i + 1].phash, dd_frames[k + 1].phash)
\* the kept frames that were in the kept set when frame i was compared
KeptBefore(i) == {k \in Kept : k < i}
Matches(i) == {k \in KeptBefore(i) : Dist(i, k) <= qc.dedup_hash_distance}
AddedAt(k) == CHOOSE j \in DOMAIN kept_indices : kept_indices[j] = k
FirstAdded(S) == CHOOSE k \in S : \A r \in S : AddedAt(k) <= AddedAt(r)
RecordsOf(i) == {j \in DOMAIN duplicates : duplicates[j].frame = dd_ids[i + 1]}

C7_KeptStartsAtZeroIncreasing ==
  (DedupDone /\ dd_frames # <<>>) =>
    /\ kept_indices # <<>>
    /\ kept_indices[1] = 0
    /\ \A j \in DOMAIN kept_indices : kept_indices[j] \in 0..(FrameCount - 1)
    /\ \A j \in 1..(Len(kept_indices) - 1) : kept_indices[j] < kept_indices[j + 1]

\* a frame was kept after an eliminated one
C7_Witness ==
  /\ DedupDone
  /\ Len(kept_indices) > 1
  /\ \E i \in Eliminated : i < kept_indices[Len(kept_indices)]

\* C8: run again on the frames it kept, deduplicate_frames keeps every one of
\* them in the same order and produces no duplicate record.
C8_Idempotent ==
  (DedupDone /\ dd_run = 2) =>
    /\ dd_frames = Select(dd_first.frames, dd_first.kept_indices)
    /\ kept_indices = [j \in 1..FrameCount |-> j - 1]
    /\ Select(dd_frames, kept_indices) = dd_frames
    /\ duplicates = <<>>

\* the second run was given several frames, the first having eliminated some
C8_Witness ==
  /\ DedupDone
  /\ dd_run = 2
  /\ FrameCount > 1
  /\ dd_first.duplicates # <<>>

----------------------------------------------------------------------------
(* Claims about evaluate_frame *)

C10_PassAndReason ==
  q_pc = "returned" =>
    /\ q_metrics.passes_quality <=> (q_metrics.is_sharp /\ ~q_metrics.is_transition)
    /\ (q_metrics.rejection_reason.check = "") <=> q_metrics.passes_quality
    /\ ~q_metrics.is_sharp => q_metrics.rejection_reason.check = "blur"
    /\ (q_metrics.rejection_reason.check = "fade/transition")
         <=> (q_metrics.is_sharp /\ q_metrics.is_transition)

\* a blurred transition frame was given the blur reason
C10_Witness ==
  /\ q_pc = "returned"
  /\ ~q_metrics.is_sharp
  /\ q_metrics.is_transition
  /\ ~q_metrics.passes_quality
  /\ q_metrics.rejection_reason = BlurReason(q_frame.blur, qc.blur_threshold)

----------------------------------------------------------------------------
(* Claims about check_fade_transition *)

BlackLevel == FadeBlackThreshold * IntensityScale
WhiteLevel == FadeWhiteThreshold * IntensityScale
StdLevel == FadeStdThreshold * IntensityScale

\* C11: a frame is a transition exactly when its mean intensity is below the
\* black threshold with a standard deviation below the std threshold, or its
\* mean is above the white threshold with a standard deviation below the std
\* threshold, or its standard deviation is below half the std threshold; all
\* comparisons are strict, so a value equal to a threshold does not trigger.
C11_FadeRules ==
  q_pc = "returned" =>
    /\ q_metrics.avg_intensity = q_frame.mean
    /\ q_metrics.intensity_std = q_frame.std
    /\ q_metrics.is_transition <=>
         \/ q_frame.mean < BlackLevel /\ q_frame.std < StdLevel
         \/ q_frame.mean > WhiteLevel /\ q_frame.std < StdLevel
         \/ 2 * q_frame.std < StdLevel

\* a frame whose mean equals the black threshold, or whose standard deviation
\* equals half the std threshold, was found to be no transition, next to a
\* frame just below the threshold
C11_Witness ==
  /\ q_pc = "returned"
  /\ ~q_metrics.is_transition
  /\ \/ q_frame.mean = BlackLevel /\ 2 * q_frame.std >= StdLevel /\ q_frame.std < StdLevel
     \/ q_frame.mean = WhiteLevel /\ 2 * q_frame.std >= StdLevel /\ q_frame.std < StdLevel
     \/ 2 * q_frame.std = StdLevel /\ q_frame.mean < BlackLevel + MaxIntensity
          /\ q_frame.mean >= BlackLevel

----------------------------------------------------------------------------
(* Claims about the fatal conditions of process_video *)

\* C12: when scene detection returns an empty scene list, process_video
\* aborts at once: no frame is extracted, no keyframe image is saved, no
\* report is written and no ProcessingStats is produced.
C12_EmptyScenesAbort ==
  /\ (pv_pc \notin {"idle", "step1"} /\ scenes = <<>>) => pv_pc = "aborted"
  /\ pv_pc = "aborted" =>
       /\ scenes = <<>>
       /\ reads = <<>>
       /\ frames = <<>>
       /\ frame_scenes = <<>>
       /\ quality_metrics_list = <<>>
       /\ saved_paths = <<>>
       /\ files = {}
       /\ ~report.written
       /\ stats = NoStats
       /\ result = "None"

\* the fixed-threshold detector found no scene and process_video returned
\* None
C12_Witness ==
  /\ ~adaptive_detection
  /\ pv_pc = "aborted"
  /\ scenes = <<>>
  /\ scene_metadata.total_scenes = 0

\* C13: whenever a run started through the command-line entry point ends in
\* a fatal condition (missing or invalid video path, or empty scene list after
\* detection), the program finishes with a non-zero completion status and
\* produces no output files.
C13_FatalExitsNonZero ==
  (main_pc = "exited" /\ (video_path # "exists" \/ pv_pc = "aborted")) =>
    /\ exit_status # ExitSuccess
    /\ files = {}

----------------------------------------------------------------------------
(* Claims about frame read failures *)

Increasing(ss) ==
  \A i, j \in DOMAIN ss : i < j => ss[i].scene_id < ss[j].scene_id

\* C14: a frame read failure is never fatal: for every non-empty scene list
\* and every subset of scenes whose frame read fails, all of them included,
\* process_video drops exactly those scenes, carries the remaining scenes in
\* their original order through the later stages, writes the report and
\* returns a ProcessingStats.
C14_ReadFailureNeverFatal ==
  /\ AfterExtraction =>
       /\ IdsOf(frame_scenes) = ReadScenes
       /\ Len(frame_scenes) = Cardinality(ReadScenes)
       /\ Len(frames) = Len(frame_scenes)
       /\ Increasing(frame_scenes)
  /\ AfterQuality => Increasing(quality_passed_scenes)
  /\ AfterDedup => Increasing(final_scenes)
  /\ pv_pc # "raised"
  /\ pv_pc = "done" =>
       /\ report.written
       /\ stats.frames_extracted = Cardinality(ReadScenes)
       /\ result = "stats"

----------------------------------------------------------------------------
(* Claims about the five-scene example *)

\* 1-indexed frames evaluate_frame found sharp
SharpFrames ==
  {quality_metrics_list[j].frame_id + 1 :
     j \in {k \in DOMAIN quality_metrics_list : quality_metrics_list[k].is_sharp}}

FrameDistance(i, j) == hamming_distance(frames[i].phash, frames[j].phash)

\* of the sharp frames only frames 3 and 5 are within dedup_hash_distance
OthersFarApart ==
  \A i, j \in {1, 3, 4, 5} :
    (i < j /\ <<i, j>> # <<3, 5>>) => FrameDistance(i, j) > qc.dedup_hash_distance

FifthDuplicateOfThird == duplicate_info = <<DuplicateRecord(4, 2, 3)>>

\* C15 as stated: with blur scores [150, 40, 200, 180, 190] and threshold 100
\* exactly frames 2, 4 and 5 pass the sharpness check; frames 3 and 5 being at
\* distance 3 with distance threshold 5, frame 5 is eliminated as a duplicate
\* of frame 3, leaving 2 final keyframes.
C15_ExampleAsStated ==
  /\ AfterQuality => SharpFrames = {2, 4, 5}
  /\ (AfterDedup /\ OthersFarApart) =>
       /\ FifthDuplicateOfThird
       /\ Len(final_frames) = 2

\* C15 as amended: exactly frames 1, 3, 4 and 5 pass the sharpness check;
\* none of them being a transition, frames 3 and 5 being at distance 3 and
\* every other pair of them farther apart than the distance threshold 5,
\* frame 5 is eliminated as a duplicate of frame 3, leaving the 3 final
\* keyframes 1, 3 and 4.
C15_ExampleAsCoded ==
  /\ AfterQuality =>
       /\ SharpFrames = {1, 3, 4, 5}
       /\ IdsOf(quality_passed_scenes) = {0, 2, 3, 4}
       /\ blur_rejected = 1
  /\ AfterDedup =>
       /\ FrameDistance(3, 5) = 3
       /\ OthersFarApart =>
            /\ FifthDuplicateOfThird
            /\ Len(final_frames) = 3
            /\ IdsOf(final_scenes) = {0, 2, 3}
            /\ dedup_removed = 1

\* the example ran to its end with only frames 3 and 5 close to each other
C15_Witness ==
  /\ pv_pc = "done"
  /\ Len(scenes) = Len(ExampleBlur)
  /\ OthersFarApart
  /\ FifthDuplicateOfThird
  /\ stats.frames_final = 3

----------------------------------------------------------------------------
(* Claims about the budget of the adaptive search *)

\* probes made so far that did not converge
NonConverged ==
  Cardinality({i \in DOMAIN iterations_data : iterations_data[i].diff > tolerance})

InitialWidth == (HighInit - LowInit) * ThresholdScale

\* C16: for any detector behaviour, non-monotonic scene counts included,
\* detect_scenes ends after at most 7 detector invocations; the iteration
\* trace has exactly one entry per invocation, in probe order; every probed
\* threshold lies strictly between 15 and 50; low <= high holds throughout and
\* the width of the interval halves after each non-converged probe.
C16_BoundedBisection ==
  /\ invocations <= MaxIterations
  /\ sd_pc = "loop" => invocations < MaxIterations
  /\ sd_pc = "idle" => scene_metadata.probes = invocations
  /\ sd_pc # "idle" =>
       /\ Len(iterations_data) = invocations
       /\ \A i \in DOMAIN iterations_data :
            /\ iterations_data[i].iteration = i - 1
            /\ iterations_data[i].threshold > LowInit * ThresholdScale
            /\ iterations_data[i].threshold < HighInit * ThresholdScale
            /\ i > 1 =>
                 Abs(iterations_data[i].threshold - iterations_data[i - 1].threshold)
                   * 2 ^ i = InitialWidth
       /\ low <= high
       /\ (high - low) * 2 ^ NonConverged = InitialWidth

\* a search over a detector that is not monotonic used the whole budget: a
\* probe at a higher threshold saw more scenes than one at a lower threshold,
\* and the interval has been halved 7 times
C16_Witness ==
  /\ sd_pc = "returned"
  /\ invocations = MaxIterations
  /\ NonConverged = MaxIterations
  /\ (high - low) * ThresholdScale = InitialWidth
  /\ \E i, j \in DOMAIN iterations_data :
       /\ iterations_data[i].threshold < iterations_data[j].threshold
       /\ iterations_data[i].scenes < iterations_data[j].scenes

----------------------------------------------------------------------------
(* Claims about the counts of ProcessingStats *)

\* the frames evaluate_frame found blurred, and the sharp ones it found to be
\* transitions
BlurredFrames ==
  {k \in DOMAIN quality_metrics_list : ~quality_metrics_list[k].is_sharp}
SharpTransitionFrames ==
  {k \in DOMAIN quality_metrics_list :
     quality_metrics_list[k].is_sharp /\ quality_metrics_list[k].is_transition}

\* C17: in every ProcessingStats process_video produces, frames_extracted =
\* frames_blur_rejected + frames_transition_rejected + frames_dedup_removed +
\* frames_final, a frame that is both blurry and a transition being counted
\* once, as blur-rejected; the number of duplicate records in the report
\* equals frames_dedup_removed, and deduplication is skipped
\* (frames_dedup_removed = 0, no records) when at most one frame passed
\* quality.
C17_CountsBalance ==
  AfterReport =>
    /\ stats.frames_extracted =
         stats.frames_blur_rejected + stats.frames_transition_rejected
           + stats.frames_dedup_removed + stats.frames_final
    /\ stats.frames_extracted = Len(quality_metrics_list)
    /\ stats.frames_blur_rejected = Cardinality(BlurredFrames)
    /\ stats.frames_transition_rejected = Cardinality(SharpTransitionFrames)
    /\ report.stats = stats
    /\ Len(report.duplicate_info) = stats.frames_dedup_removed
    /\ Len(quality_passed_frames) <= 1 =>
         /\ stats.frames_dedup_removed = 0
         /\ report.duplicate_info = <<>>
         /\ stats.frames_final = Len(quality_passed_frames)

\* the stats of a run with a blurred transition frame and a duplicate removed
C17_Witness ==
  /\ pv_pc = "done"
  /\ \E k \in BlurredFrames : quality_metrics_list[k].is_transition
  /\ stats.frames_blur_rejected = 1
  /\ stats.frames_transition_rejected = 0
  /\ stats.frames_dedup_removed = 1
  /\ Len(report.duplicate_info) = 1

====
